---- MODULE Spec2Model ----
(***************************************************************************)
(* Model of app.py: a Streamlit voting dashboard over a Firebase Realtime  *)
(* Database.  Every browser holds one Streamlit session; every script run  *)
(* of a session executes the module top to bottom: voter id (28-42), seed  *)
(* (224-264, called at 462), fetch (563-565) and then the handler of the   *)
(* widget that caused the run.  Each store call (get, set, update, delete, *)
(* one attempt of a transaction) is one atomic step; the steps of          *)
(* different sessions interleave freely.                                   *)
(***************************************************************************)
EXTENDS Integers, Sequences, FiniteSets, TLC

\* ---------------------------------------------------------------- bounds
MaxToolIds == 2      \* uuid4 values drawn for tools (129, 247)
MaxVoterIds == 2     \* uuid4 values drawn for sessions' voter ids (40)
MaxOps == 2          \* votes, tools added, edits saved, runs abandoned
MaxClock == 2        \* values datetime.utcnow() takes
MaxBoardTools == 2   \* tools of a store whose leaderboard is computed
MaxCount == 2        \* upvotes of such a tool
MaxComments == 2     \* uuid4 values drawn for comments (145)

\* .head(10) of the section chart (645)
ChartRows == 10

Browsers == {"b1", "b2"}
ToolIds == 1..MaxToolIds
VoterIds == 1..MaxVoterIds

\* ------------------------------------------------------------- sentinels
NoId == 0                 \* no uuid: key missing in session_state / localStorage
Absent == -1              \* a numeric child that does not exist (None)
NoName == "<absent>"      \* a tool entry without a "name" child

\* ------------------------------------------------------------- constants
\* SECTION_MAPPING (63-71), cut to its first two entries.
SectionNames == <<"Segmentation", "Clustering">>
SECTION_MAPPING == [n \in {"Segmentation", "Clustering"} |->
                      IF n = "Segmentation" THEN "section1" ELSE "section2"]
SectionIds == {"section1", "section2"}
\* iteration order of SECTION_MAPPING / of the fetched sections dict
SectionOrder == <<"section1", "section2">>

\* DEFAULT_SECTIONS (72): every section with its name and no tool ids.
DEFAULT_SECTIONS == [sid \in SectionIds |->
    [name |-> IF sid = "section1" THEN "Segmentation" ELSE "Clustering",
     tool_ids |-> {}]]

\* INITIAL_VOTES (161-221), the entries of the names used here;
\* .get(tool_name, 0) gives 0 for every other name.
INITIAL_VOTES(n) ==
    CASE n = "Cellpose" -> 1976
      [] n = "KBC" -> 1
      [] OTHER -> 0

\* tools.csv, the seed table: "Tool name" and the rows' flagged columns.
\* The second row flags no section.
CsvRows == << [name |-> " Cellpose ", cols |-> <<"Segmentation", "Clustering">>],
              [name |-> "KBC",        cols |-> <<>>] >>

\* ---------------------------------------------------------------- strings
\* str.strip over the strings that occur.
Strip(s) ==
    CASE s = " Cellpose " -> "Cellpose"
      [] s = " cellpose " -> "cellpose"
      [] s = "  " -> ""
      [] s = " nice " -> "nice"
      [] s = " Segmentation" -> "Segmentation"
      [] s = " Clustering" -> "Clustering"
      [] OTHER -> s

\* str.lower over the strings that occur.
Lower(s) ==
    CASE s = "Cellpose" -> "cellpose"
      [] s = "Napari" -> "napari"
      [] s = "KBC" -> "kbc"
      [] OTHER -> s

\* What a user types into a name field, and the section lists a multiselect
\* can return (in selection order).
TypedNames == {" cellpose ", "Napari", "  "}
EditedNames == {" cellpose ", "  "}
SectionChoices == {<<>>, <<"section2", "section1">>}

\* What a user types into the comment box, and the radio's choices taken.
CommentTexts == {" nice ", "  "}
CommentTypes == {"pro", "neutral"}
CommentIds == 1..MaxComments

Range(f) == {f[i] : i \in DOMAIN f}

VARIABLES
    tools,         \* /tools: tool id -> entry
    sections,      \* /sections: section id -> [name, tool_ids]
    votes,         \* /votes: <<tool id, voter id>> -> vote record
    nextTool,      \* next uuid4 drawn for a tool
    nextVoter,     \* next uuid drawn for a voter
    localStorage,  \* browser -> localStorage["voter_id"]
    voter_id,      \* browser -> st.session_state["voter_id"]
    score_state,   \* browser -> st.session_state[score_key], by tool id
    pc,            \* browser -> position of its script run
    ev,            \* browser -> the widget event its running handler serves
    local,         \* browser -> local variables of the running handler
    notice,        \* browser -> the message its last script run left on the page
    cast,          \* history: <<tool id, voter id>> -> increments committed
    start,         \* history: tool id -> counters its entry was created with
    incs,          \* history: tool id -> increments committed on its entry
    ops,           \* history: user operations and abandoned runs so far
    applied,       \* history: <<tool id, direction>> -> increments committed
    comments,      \* /comments: <<tool id, comment id>> -> comment
    clock,         \* the last value datetime.utcnow() gave
    listing,       \* browser -> the comments its page shows: tool, rows
    tools_dict,    \* tools_dict of the script run in view (563)
    sections_dict, \* sections_dict of that run (564)
    tools_df,      \* tools_df of that run (565): its rows in order
    sub_df,        \* a section's view in that run (639, 661): section, rows
    top10_df       \* the chart rows of that view (645)

\* The variables of the leaderboard views, and those of the comments.
viewVars == <<tools_dict, sections_dict, tools_df, sub_df, top10_df>>
commentVars == <<comments, clock, listing>>

\* No comments shown yet.
NoListing == [tool |-> 0, rows |-> <<>>]

\* No section view computed yet.
NoView == [sec_id |-> "", rows |-> <<>>]

vars == <<tools, sections, votes, nextTool, nextVoter, localStorage, voter_id,
          score_state, pc, ev, local, notice, cast, start, incs, ops, applied,
          commentVars, viewVars>>

Empty == [x \in {} |-> 0]

NoEvent == [kind |-> "none", tool |-> NoId, dir |-> "", name |-> "", secs |-> <<>>,
            text |-> "", type |-> ""]
NoLocal == [tools_obj |-> Empty, queue |-> <<>>, cur |-> Absent, todo |-> ""]

\* int(current) of a counter child, None read as 0 (122-124, 271, 285-286).
Val(x) == IF x = Absent THEN 0 ELSE x

\* compute_score (270-271)
compute_score(tool) == Val(tool.upvotes) - Val(tool.downvotes)

Init ==
    /\ tools = Empty
    /\ sections = Empty
    /\ votes = Empty
    /\ nextTool = 1
    /\ nextVoter = 1
    /\ localStorage = [b \in Browsers |-> NoId]
    /\ voter_id = [b \in Browsers |-> NoId]
    /\ score_state = [b \in Browsers |-> Empty]
    /\ pc = [b \in Browsers |-> "closed"]
    /\ ev = [b \in Browsers |-> NoEvent]
    /\ local = [b \in Browsers |-> NoLocal]
    /\ notice = [b \in Browsers |-> ""]
    /\ cast = Empty
    /\ start = Empty
    /\ incs = Empty
    /\ ops = 0
    /\ applied = Empty
    /\ comments = Empty
    /\ clock = 0
    /\ listing = [b \in Browsers |-> NoListing]
    /\ tools_dict = Empty
    /\ sections_dict = Empty
    /\ tools_df = <<>>
    /\ sub_df = NoView
    /\ top10_df = <<>>

\* ------------------------------------------------------------ script start
\* crypto.randomUUID() (32) in a browser: a value no other draw gives.
RandomUUID(b) == IF b = "b1" THEN 101 ELSE 102

\* Lines 28-42 of a script run whose session_state holds voter id `sid`
\* (NoId: no such key).  Python: the key gets a uuid4 if missing, and
\* get_browser_voter_id returns session_state["voter_id"].  The component's
\* script: the browser's localStorage keeps its id, or gets a randomUUID; the
\* message it posts is read by nobody.
ScriptTop(b, sid) ==
    [voter_id |-> IF sid = NoId THEN nextVoter ELSE sid,
     nextVoter |-> IF sid = NoId THEN nextVoter + 1 ELSE nextVoter,
     localStorage |-> IF localStorage[b] = NoId THEN RandomUUID(b)
                      ELSE localStorage[b]]

\* VOTER_ID (42) of the browser's running session
VOTER_ID(b) == voter_id[b]

\* The emptiness checks the seeding rests on (231, 235).
SectionsPresent == DOMAIN sections # {}
ToolsPresent == DOMAIN tools # {}

\* Where a script run stands after lines 28-42.  Once both collections are
\* present the two reads of seed_defaults_from_excel (231, 235) give the same
\* answer at any later time (nothing empties a collection), so such a run is
\* at its fetch.
AfterTop == IF SectionsPresent /\ ToolsPresent THEN "fetch" ELSE "seed_sections"

\* A browser opens or reloads the page: a new session with an empty
\* session_state, whose first script run starts.
NewSession(b) ==
    /\ pc[b] \in {"closed", "idle"}
    /\ LET top == ScriptTop(b, NoId)
       IN /\ top.nextVoter <= MaxVoterIds + 1
          /\ voter_id' = [voter_id EXCEPT ![b] = top.voter_id]
          /\ localStorage' = [localStorage EXCEPT ![b] = top.localStorage]
          /\ nextVoter' = top.nextVoter
    /\ score_state' = [score_state EXCEPT ![b] = Empty]
    /\ pc' = [pc EXCEPT ![b] = AfterTop]
    /\ notice' = [notice EXCEPT ![b] = ""]
    /\ UNCHANGED <<tools, sections, votes, nextTool, ev, local, cast, start,
                   incs, ops>>
    /\ UNCHANGED <<applied, commentVars, viewVars>>

\* A widget event, or the auto-refresh timer (559-560), reruns the script of
\* the session, its session_state kept: lines 28-42 again.
Rerun(b) ==
    /\ pc[b] = "idle"
    /\ AfterTop # "fetch"
    /\ LET top == ScriptTop(b, voter_id[b])
       IN /\ voter_id' = [voter_id EXCEPT ![b] = top.voter_id]
          /\ localStorage' = [localStorage EXCEPT ![b] = top.localStorage]
          /\ nextVoter' = top.nextVoter
    /\ pc' = [pc EXCEPT ![b] = AfterTop]
    /\ notice' = [notice EXCEPT ![b] = ""]
    /\ UNCHANGED <<tools, sections, votes, nextTool, score_state, ev, local,
                   cast, start, incs, ops>>
    /\ UNCHANGED <<applied, commentVars, viewVars>>

\* A script run is at its fetch (563): after its seed call, or, the
\* collections being present, as soon as an event reruns the script of an
\* idle session (lines 28-42 then change nothing: both ids exist).
AtFetch(b) == pc[b] = "fetch" \/ (pc[b] = "idle" /\ AfterTop = "fetch")

HasNames(d) == \A t \in DOMAIN d : d[t].name # NoName

\* ------------------------------------------------------------------- seed
\* section_ids of a row (242): the mapped ids of its flagged columns, in the
\* order of SECTION_MAPPING.
RowSectionIds(row) ==
    LET flagged == SelectSeq(SectionNames, LAMBDA c : c \in Range(row.cols))
    IN [i \in 1..Len(flagged) |-> SECTION_MAPPING[flagged[i]]]

\* tags of a list of section ids (245, 744): the sections' names, in order.
TagsOf(section_ids) ==
    [k \in 1..Len(section_ids) |-> DEFAULT_SECTIONS[section_ids[k]].name]

\* The loop of seed_defaults_from_excel (239-262) from row i on, `tid` the
\* next uuid4: tools_obj as it stands at line 263, and the tool_ids updates
\* of line 262 in the order the loop issues them.
RECURSIVE SeedRows(_, _, _)
SeedRows(i, tid, plan) ==
    IF i > Len(CsvRows) THEN plan
    ELSE LET row == CsvRows[i]
             tool_name == Strip(row.name)
             section_ids == RowSectionIds(row)
             entry == [name |-> tool_name,
                       tags |-> TagsOf(section_ids),
                       sections |-> section_ids,
                       upvotes |-> INITIAL_VOTES(tool_name),
                       downvotes |-> 0,
                       created_at |-> "set"]
         IN IF section_ids = <<>>
            THEN SeedRows(i + 1, tid, plan)
            ELSE SeedRows(i + 1, tid + 1,
                   [tools_obj |-> plan.tools_obj @@ (tid :> entry),
                    queue |-> plan.queue \o
                       [k \in 1..Len(section_ids) |-> <<section_ids[k], tid>>]])

\* The end of a script run that leaves message msg on the page (st.warning,
\* st.error, an uncaught exception; "": none that stays): the session waits
\* for the next widget event.
EndRunWith(b, msg) ==
    /\ pc' = [pc EXCEPT ![b] = "idle"]
    /\ notice' = [notice EXCEPT ![b] = msg]
    /\ ev' = [ev EXCEPT ![b] = NoEvent]
    /\ local' = [local EXCEPT ![b] = NoLocal]

EndRun(b) == EndRunWith(b, "")

\* root.child("sections").get() (231)
SeedSectionsGet(b) ==
    /\ pc[b] = "seed_sections"
    /\ pc' = [pc EXCEPT ![b] = IF SectionsPresent THEN "seed_tools"
                                ELSE "seed_sections_set"]
    /\ UNCHANGED <<tools, sections, votes, nextTool, nextVoter, localStorage,
                   voter_id, score_state, ev, local, notice, cast, start, incs,
                   ops>>
    /\ UNCHANGED <<applied, commentVars, viewVars>>

\* root.child("sections").set(DEFAULT_SECTIONS) (232)
SeedSectionsSet(b) ==
    /\ pc[b] = "seed_sections_set"
    /\ sections' = DEFAULT_SECTIONS
    /\ pc' = [pc EXCEPT ![b] = "seed_tools"]
    /\ UNCHANGED <<tools, votes, nextTool, nextVoter, localStorage, voter_id,
                   score_state, ev, local, notice, cast, start, incs, ops>>
    /\ UNCHANGED <<applied, commentVars, viewVars>>

\* root.child("tools").get() (235): return if tools are present, else read
\* the table and run the loop's local part (238-259).
SeedToolsGet(b) ==
    /\ pc[b] = "seed_tools"
    /\ IF ToolsPresent
       THEN /\ pc' = [pc EXCEPT ![b] = "fetch"]
            /\ UNCHANGED <<nextTool, local>>
       ELSE LET plan == SeedRows(1, nextTool, [tools_obj |-> Empty, queue |-> <<>>])
                n == Cardinality(DOMAIN plan.tools_obj)
            IN /\ nextTool + n <= MaxToolIds + 1
               /\ nextTool' = nextTool + n
               /\ local' = [local EXCEPT ![b].tools_obj = plan.tools_obj,
                                         ![b].queue = plan.queue]
               /\ pc' = [pc EXCEPT ![b] = "seed_assign"]
    /\ UNCHANGED <<tools, sections, votes, nextVoter, localStorage, voter_id,
                   score_state, ev, notice, cast, start, incs, ops>>
    /\ UNCHANGED <<applied, commentVars, viewVars>>

\* .child("tool_ids").update({tid: True}) on a section (140, 262, 798)
AddToolId(secs, sec_id, tid) ==
    IF sec_id \in DOMAIN secs
    THEN [secs EXCEPT ![sec_id].tool_ids = @ \cup {tid}]
    ELSE secs @@ (sec_id :> [name |-> NoName, tool_ids |-> {tid}])

\* root.child("sections").child(sec_id).child("tool_ids").update (262)
SeedAssign(b) ==
    /\ pc[b] = "seed_assign"
    /\ local[b].queue # <<>>
    /\ LET w == Head(local[b].queue)
       IN sections' = AddToolId(sections, w[1], w[2])
    /\ local' = [local EXCEPT ![b].queue = Tail(@)]
    /\ UNCHANGED <<tools, votes, nextTool, nextVoter, localStorage, voter_id,
                   score_state, pc, ev, notice, cast, start, incs, ops>>
    /\ UNCHANGED <<applied, commentVars, viewVars>>

\* The counters an entry holds, as the history keeps them.
Counters(entry) == [up |-> Val(entry.upvotes), down |-> Val(entry.downvotes)]
Zero == [up |-> 0, down |-> 0]

\* root.child("tools").set(tools_obj) (263)
SeedSetTools(b) ==
    /\ pc[b] = "seed_assign"
    /\ local[b].queue = <<>>
    /\ tools' = local[b].tools_obj
    /\ start' = [t \in DOMAIN tools' |-> Counters(tools'[t])]
    /\ incs' = [t \in DOMAIN tools' |-> Zero]
    /\ pc' = [pc EXCEPT ![b] = "fetch"]
    /\ local' = [local EXCEPT ![b] = NoLocal]
    /\ UNCHANGED <<sections, votes, nextTool, nextVoter, localStorage, voter_id,
                   score_state, ev, notice, cast, ops>>
    /\ UNCHANGED <<applied, commentVars, viewVars>>

\* ------------------------------------------------------------ fetch, rows
NoStamp == "<absent>"

\* A /tools entry none of whose children exists yet.
NoEntry == [name |-> NoName, tags |-> <<>>, sections |-> <<>>,
            upvotes |-> Absent, downvotes |-> Absent, created_at |-> NoStamp]

\* st.session_state[score_key] after lines 582-583 for a row of the fetched
\* tools: set from the row only if the key is missing.
ScoreKeys(cache, fetched) ==
    [t \in DOMAIN cache \cup DOMAIN fetched |->
        IF t \in DOMAIN cache THEN cache[t] ELSE compute_score(fetched[t])]

\* What c_score.write shows for tool t (588).
Shown(b, t) == score_state[b][t]

\* list_all_tools_dict() (563) and the rows of the Overall Leaderboard
\* (699-700) rendered by render_tool_row (570-588), in a run no button of
\* which was clicked.
RenderRows(b) ==
    /\ AtFetch(b)
    /\ score_state' = [score_state EXCEPT ![b] = ScoreKeys(@, tools)]
    /\ EndRun(b)
    /\ UNCHANGED <<tools, sections, votes, nextTool, nextVoter, localStorage,
                   voter_id, cast, start, incs, ops>>
    /\ UNCHANGED <<applied, commentVars, viewVars>>

\* The same in the run a click on a row's button caused: the button (590,
\* 594) of a row the session has rendered before and renders again is True,
\* and its increment starts.
VoteClick(b) ==
    /\ AtFetch(b)
    /\ ops < MaxOps
    /\ ops' = ops + 1
    /\ score_state' = [score_state EXCEPT ![b] = ScoreKeys(@, tools)]
    /\ \E t \in DOMAIN score_state[b] \cap DOMAIN tools, dir \in {"up", "down"} :
         ev' = [ev EXCEPT ![b] = [NoEvent EXCEPT !.kind = "vote", !.tool = t, !.dir = dir]]
    /\ pc' = [pc EXCEPT ![b] = "txn_get"]
    /\ notice' = [notice EXCEPT ![b] = ""]
    /\ UNCHANGED <<tools, sections, votes, nextTool, nextVoter, localStorage,
                   voter_id, local, cast, start, incs>>
    /\ UNCHANGED <<applied, commentVars, viewVars>>

\* ------------------------------------------------- increment_counter_atomic
CounterOf(entry, dir) == IF dir = "up" THEN entry.upvotes ELSE entry.downvotes

\* The value at /tools/{t}/upvotes or /tools/{t}/downvotes.
Stored(t, dir) == IF t \in DOMAIN tools THEN CounterOf(tools[t], dir) ELSE Absent

\* transaction_func (121-124)
transaction_func(current, delta) ==
    IF current = Absent THEN delta ELSE current + delta

\* A store that writes whatever a transaction computed, without the test.
UnchangedBlind(now, read) == TRUE

\* The store's test of a transaction's write: the value is the one read.
Unchanged(now, read) == now = read

\* Writing value v at the counter path of tool t.
SetCounter(t, dir, v) ==
    LET old == IF t \in DOMAIN tools THEN tools[t] ELSE NoEntry
        new == IF dir = "up" THEN [old EXCEPT !.upvotes = v]
               ELSE [old EXCEPT !.downvotes = v]
    IN [x \in DOMAIN tools \cup {t} |-> IF x = t THEN new ELSE tools[x]]

Bump(c, dir) == IF dir = "up" THEN [c EXCEPT !.up = @ + 1]
                ELSE [c EXCEPT !.down = @ + 1]

\* A further attempt that works on the value read before.
AttemptStale(now, read) == read

\* ref.transaction (125): after a conflict the next attempt works on the
\* value found in the store.
Attempt(now, read) == now

\* ref.transaction (125): the read of the current value.
TxnGet(b) ==
    /\ pc[b] = "txn_get"
    /\ local' = [local EXCEPT ![b].cur = Stored(ev[b].tool, ev[b].dir)]
    /\ pc' = [pc EXCEPT ![b] = "txn_set"]
    /\ UNCHANGED <<tools, sections, votes, nextTool, nextVoter, localStorage,
                   voter_id, score_state, ev, notice, cast, start, incs, ops>>
    /\ UNCHANGED <<applied, commentVars, viewVars>>

\* The history of a committed increment of tool t by voter v in direction
\* dir.
Record(t, v, dir) ==
    /\ cast' = [k \in DOMAIN cast \cup {<<t, v>>} |->
                  (IF k \in DOMAIN cast THEN cast[k] ELSE 0)
                  + (IF k = <<t, v>> THEN 1 ELSE 0)]
    /\ start' = IF t \in DOMAIN tools THEN start ELSE start @@ (t :> Zero)
    /\ incs' = [x \in DOMAIN tools \cup {t} |->
                  IF x # t THEN incs[x]
                  ELSE Bump(IF t \in DOMAIN tools THEN incs[t] ELSE Zero, dir)]
    /\ applied' = [k \in DOMAIN applied \cup {<<t, dir>>} |->
                     (IF k \in DOMAIN applied THEN applied[k] ELSE 0)
                     + (IF k = <<t, dir>> THEN 1 ELSE 0)]

\* ref.transaction (125): the write of transaction_func's value if the value
\* is unchanged, else another attempt on the value found; then the session's
\* own score (592, 596).
TxnSet(b) ==
    /\ pc[b] = "txn_set"
    /\ LET t == ev[b].tool
           dir == ev[b].dir
           now == Stored(t, dir)
       IN IF Unchanged(now, local[b].cur)
          THEN /\ tools' = SetCounter(t, dir, transaction_func(local[b].cur, 1))
               /\ Record(t, VOTER_ID(b), dir)
               /\ score_state' = [score_state EXCEPT ![b][t] =
                                    IF dir = "up" THEN @ + 1 ELSE @ - 1]
               /\ EndRun(b)
          ELSE /\ local' = [local EXCEPT ![b].cur = Attempt(now, local[b].cur),
                                         ![b].todo = "retry"]
               /\ UNCHANGED <<tools, cast, start, incs, applied, score_state,
                              pc, ev, notice>>
    /\ UNCHANGED <<sections, votes, nextTool, nextVoter, localStorage, voter_id,
                   ops>>
    /\ UNCHANGED <<commentVars, viewVars>>

\* ---------------------------------------- the first render_tool_row (305-330)
\* The rows and handlers of the definition at 305-330, which gates the
\* buttons of a row on the voter's record at /votes/{tool}/{voter}.

\* A gate that never finds a record.
AlreadyVotedNever(t, v) == FALSE

\* vote_ref.get() (318-319) is truthy.
AlreadyVoted(t, v) == <<t, v>> \in DOMAIN votes

\* A read of datetime.utcnow(): not before the last one, unequal or equal.
ClockReads == {c \in {clock, clock + 1} : c <= MaxClock}

\* The rows of a run without a click: the cache of lines 309-310, the rows'
\* reads of /votes and /comments (318, 333), which write nothing.
RenderRowsGated(b) ==
    /\ AtFetch(b)
    /\ score_state' = [score_state EXCEPT ![b] = ScoreKeys(@, tools)]
    /\ EndRun(b)
    /\ UNCHANGED <<tools, sections, votes, nextTool, nextVoter, localStorage,
                   voter_id, cast, start, incs, ops>>
    /\ UNCHANGED <<applied, commentVars, viewVars>>

\* The run a click on a row's button caused, up to that row.
VoteClickGated(b) ==
    /\ AtFetch(b)
    /\ ops < MaxOps
    /\ ops' = ops + 1
    /\ score_state' = [score_state EXCEPT ![b] = ScoreKeys(@, tools)]
    /\ \E t \in DOMAIN score_state[b] \cap DOMAIN tools, dir \in {"up", "down"} :
         ev' = [ev EXCEPT ![b] = [NoEvent EXCEPT !.kind = "vote", !.tool = t, !.dir = dir]]
    /\ pc' = [pc EXCEPT ![b] = "vote_get"]
    /\ notice' = [notice EXCEPT ![b] = ""]
    /\ UNCHANGED <<tools, sections, votes, nextTool, nextVoter, localStorage,
                   voter_id, local, cast, start, incs>>
    /\ UNCHANGED <<applied, commentVars, viewVars>>

\* The gate, with the record's write put before the increment.
VoteRefGetRecordFirst(b) ==
    /\ pc[b] = "vote_get"
    /\ IF AlreadyVoted(ev[b].tool, VOTER_ID(b))
       THEN EndRun(b)
       ELSE /\ pc' = [pc EXCEPT ![b] = "vote_set"]
            /\ UNCHANGED <<ev, local, notice>>
    /\ UNCHANGED <<tools, sections, votes, nextTool, nextVoter, localStorage,
                   voter_id, score_state, cast, start, incs, ops>>
    /\ UNCHANGED <<applied, commentVars, viewVars>>

\* vote_ref.get() (318-319) of the clicked row: with a record the row gets
\* disabled buttons under other keys (320-321) and the click serves nothing;
\* without one the clicked button (323, 327) is True.
VoteRefGet(b) ==
    /\ pc[b] = "vote_get"
    /\ IF AlreadyVoted(ev[b].tool, VOTER_ID(b))
       THEN EndRun(b)
       ELSE /\ pc' = [pc EXCEPT ![b] = "gated_txn_get"]
            /\ UNCHANGED <<ev, local, notice>>
    /\ UNCHANGED <<tools, sections, votes, nextTool, nextVoter, localStorage,
                   voter_id, score_state, cast, start, incs, ops>>
    /\ UNCHANGED <<applied, commentVars, viewVars>>

\* increment_counter_atomic (324, 328): the transaction's read.
TxnGetGated(b) ==
    /\ pc[b] = "gated_txn_get"
    /\ local' = [local EXCEPT ![b].cur = Stored(ev[b].tool, ev[b].dir)]
    /\ pc' = [pc EXCEPT ![b] = "gated_txn_set"]
    /\ UNCHANGED <<tools, sections, votes, nextTool, nextVoter, localStorage,
                   voter_id, score_state, ev, notice, cast, start, incs, ops>>
    /\ UNCHANGED <<applied, commentVars, viewVars>>

\* increment_counter_atomic (324, 328): the transaction's write, or another
\* attempt; the record's write follows.
TxnSetGated(b) ==
    /\ pc[b] = "gated_txn_set"
    /\ LET t == ev[b].tool
           dir == ev[b].dir
           now == Stored(t, dir)
       IN IF Unchanged(now, local[b].cur)
          THEN /\ tools' = SetCounter(t, dir, transaction_func(local[b].cur, 1))
               /\ Record(t, VOTER_ID(b), dir)
               /\ pc' = [pc EXCEPT ![b] = "vote_set"]
               /\ UNCHANGED local
          ELSE /\ local' = [local EXCEPT ![b].cur = Attempt(now, local[b].cur),
                                         ![b].todo = "retry"]
               /\ UNCHANGED <<tools, cast, start, incs, applied, pc>>
    /\ UNCHANGED <<sections, votes, nextTool, nextVoter, localStorage, voter_id,
                   score_state, ev, notice, ops>>
    /\ UNCHANGED <<commentVars, viewVars>>

\* /votes after vote_ref.set (325, 329) by voter v on tool t.
SetVote(t, v, dir, stamp) ==
    [k \in DOMAIN votes \cup {<<t, v>>} |->
        IF k = <<t, v>> THEN [type |-> dir, timestamp |-> stamp] ELSE votes[k]]

\* vote_ref.set (325, 329), then the session's own score (326, 330).
VoteRefSet(b) ==
    /\ pc[b] = "vote_set"
    /\ \E stamp \in ClockReads :
         /\ clock' = stamp
         /\ votes' = SetVote(ev[b].tool, VOTER_ID(b), ev[b].dir, stamp)
    /\ score_state' = [score_state EXCEPT ![b][ev[b].tool] =
                         IF ev[b].dir = "up" THEN @ + 1 ELSE @ - 1]
    /\ EndRun(b)
    /\ UNCHANGED <<tools, sections, nextTool, nextVoter, localStorage, voter_id,
                   cast, start, incs, ops, applied, comments, listing, viewVars>>

\* ------------------------------------------------------------ Suggest Tool
\* The existing names compared as they are stored, case kept.
LowerNamesExact(d) == {d[t].name : t \in DOMAIN d}

\* existing_tool_names (708), lower-cased as line 738 compares them.
LowerNames(d) == {Lower(d[t].name) : t \in DOMAIN d}

\* The validation of a submitted form (708, 732-746) against the fetched
\* tools d: t['name'] of an entry without a name raises KeyError.
SuggestVerdict(d, tool_name, selected_sections) ==
    LET name_stripped == Strip(tool_name)
    IN CASE ~HasNames(d) -> "KeyError"
         [] name_stripped = "" -> "EmptyInput"
         [] Lower(name_stripped) \in LowerNames(d) -> "DuplicateName"
         [] selected_sections = <<>> -> "NoSection"
         [] OTHER -> "ok"

\* list_all_tools_dict() (563) and the Suggest Tool tab's submit (703-749)
\* of a typed name and a selection of sections.
SuggestSubmit(b) ==
    /\ AtFetch(b)
    /\ ops < MaxOps
    /\ ops' = ops + 1
    /\ \E tool_name \in TypedNames, selected_sections \in SectionChoices :
         IF SuggestVerdict(tools, tool_name, selected_sections) = "ok"
         THEN /\ ev' = [ev EXCEPT ![b] = [NoEvent EXCEPT !.kind = "suggest",
                          !.name = tool_name, !.secs = selected_sections]]
              /\ pc' = [pc EXCEPT ![b] = "create_set"]
              /\ notice' = [notice EXCEPT ![b] = ""]
              /\ UNCHANGED local
         ELSE EndRunWith(b, SuggestVerdict(tools, tool_name, selected_sections))
    /\ UNCHANGED <<tools, sections, votes, nextTool, nextVoter, localStorage,
                   voter_id, score_state, cast, start, incs>>
    /\ UNCHANGED <<applied, commentVars, viewVars>>

\* tool_data of create_tool_entry (130-137)
tool_data(name, tags, section_ids) ==
    [name |-> name, tags |-> tags, sections |-> section_ids,
     upvotes |-> 0, downvotes |-> 0, created_at |-> "set"]

\* create_tool_entry (127-138): the new id and the write of the tool.
CreateSet(b) ==
    /\ pc[b] = "create_set"
    /\ nextTool <= MaxToolIds
    /\ LET new_id == nextTool
           section_ids == ev[b].secs
       IN /\ tools' = tools @@
                (new_id :> tool_data(Strip(ev[b].name), TagsOf(section_ids), section_ids))
          /\ start' = start @@ (new_id :> Zero)
          /\ incs' = incs @@ (new_id :> Zero)
          /\ local' = [local EXCEPT ![b].queue =
                [k \in 1..Len(section_ids) |-> <<section_ids[k], new_id>>]]
    /\ nextTool' = nextTool + 1
    /\ pc' = [pc EXCEPT ![b] = "create_assign"]
    /\ UNCHANGED <<sections, votes, nextVoter, localStorage, voter_id,
                   score_state, ev, notice, cast, ops>>
    /\ UNCHANGED <<applied, commentVars, viewVars>>

\* create_tool_entry (139-140): one tool_ids update of the loop.
CreateAssign(b) ==
    /\ pc[b] = "create_assign"
    /\ local[b].queue # <<>>
    /\ LET w == Head(local[b].queue)
       IN sections' = AddToolId(sections, w[1], w[2])
    /\ IF Tail(local[b].queue) = <<>>
       THEN EndRun(b)
       ELSE /\ local' = [local EXCEPT ![b].queue = Tail(@)]
            /\ UNCHANGED <<pc, ev, notice>>
    /\ UNCHANGED <<tools, votes, nextTool, nextVoter, localStorage, voter_id,
                   score_state, cast, start, incs, ops>>
    /\ UNCHANGED <<applied, commentVars, viewVars>>

\* ------------------------------------------------------------ Manage Tools
\* new_tags (778) as new_tags.split(",") (787) cuts it: ", ".join of the
\* sections' names gives the first name and every other name after a
\* space, no section name holding a comma; the empty string gives one
\* empty piece.
new_tags_split(new_sections) ==
    IF new_sections = <<>> THEN <<"">>
    ELSE [k \in 1..Len(new_sections) |->
            IF k = 1 THEN TagsOf(new_sections)[k]
            ELSE " " \o TagsOf(new_sections)[k]]

\* The pieces as they are cut, none stripped.
SaveTagsAsCut(new_sections) == new_tags_split(new_sections)

\* "tags" of the save (787): [t.strip() for t in ... if t.strip()]
SaveTags(new_sections) ==
    LET pieces == new_tags_split(new_sections)
        stripped == [k \in 1..Len(pieces) |-> Strip(pieces[k])]
    IN SelectSeq(stripped, LAMBDA t : t # "")

\* A save that writes the whole entry: the three children and nothing else.
UpdateToolSet(e, t, new_name, new_sections) ==
    [x \in DOMAIN e \cup {t} |->
        IF x = t THEN [NoEntry EXCEPT !.name = Strip(new_name),
                                      !.tags = TagsOf(new_sections),
                                      !.sections = new_sections]
        ELSE e[x]]

\* tool_ref.update (785-789) on the entries e: the three children are
\* written, the others kept; a missing entry comes to exist with these three.
UpdateTool(e, t, new_name, new_sections) ==
    LET old == IF t \in DOMAIN e THEN e[t] ELSE NoEntry
        new == [old EXCEPT !.name = Strip(new_name),
                           !.tags = SaveTags(new_sections),
                           !.sections = new_sections]
    IN [x \in DOMAIN e \cup {t} |-> IF x = t THEN new ELSE e[x]]

\* list_all_tools_dict() (563) and the Manage Tools tab up to the click of
\* "Save changes" (757-782): tool_options raises KeyError on an entry
\* without a name; the name field holds the tool's name or what was typed,
\* the multiselect the tool's sections or what was selected.
ManageSave(b) ==
    /\ AtFetch(b)
    /\ ops < MaxOps
    /\ ops' = ops + 1
    /\ IF ~HasNames(tools) \/ ~ToolsPresent
       THEN EndRunWith(b, "KeyError")
       ELSE \E selected_tool_id \in DOMAIN tools :
            \E new_name \in EditedNames \cup {tools[selected_tool_id].name},
               new_sections \in SectionChoices \cup {tools[selected_tool_id].sections} :
              /\ ev' = [ev EXCEPT ![b] = [NoEvent EXCEPT !.kind = "save",
                          !.tool = selected_tool_id, !.name = new_name,
                          !.secs = new_sections]]
              /\ pc' = [pc EXCEPT ![b] = "save_update"]
              /\ notice' = [notice EXCEPT ![b] = ""]
              /\ UNCHANGED local
    /\ UNCHANGED <<tools, sections, votes, nextTool, nextVoter, localStorage,
                   voter_id, score_state, cast, start, incs>>
    /\ UNCHANGED <<applied, commentVars, viewVars>>

\* tool_ref.update (784-789)
SaveUpdate(b) ==
    /\ pc[b] = "save_update"
    /\ LET t == ev[b].tool
       IN /\ tools' = UpdateTool(tools, t, ev[b].name, ev[b].secs)
          /\ start' = IF t \in DOMAIN tools THEN start ELSE start @@ (t :> Zero)
          /\ incs' = IF t \in DOMAIN tools THEN incs ELSE incs @@ (t :> Zero)
          /\ local' = [local EXCEPT ![b].queue =
                [k \in 1..Len(SectionOrder) |-> <<SectionOrder[k], t>>]]
    /\ pc' = [pc EXCEPT ![b] = "save_get"]
    /\ UNCHANGED <<sections, votes, nextTool, nextVoter, localStorage, voter_id,
                   score_state, ev, notice, cast, ops>>
    /\ UNCHANGED <<applied, commentVars, viewVars>>

\* The write the loop body (795-798) chooses for a section whose tool_ids
\* it has read.
SaveChoice(sec_id, new_sections, t, sec_tool_ids) ==
    CASE sec_id \notin Range(new_sections) /\ t \in sec_tool_ids -> "delete"
      [] sec_id \in Range(new_sections) /\ t \notin sec_tool_ids -> "add"
      [] OTHER -> ""

\* The loop (792) moves to the next section, or the run ends (800-801).
SaveAdvance(b) ==
    IF Tail(local[b].queue) = <<>>
    THEN EndRun(b)
    ELSE /\ local' = [local EXCEPT ![b].queue = Tail(@), ![b].todo = ""]
         /\ pc' = [pc EXCEPT ![b] = "save_get"]
         /\ UNCHANGED <<ev, notice>>

\* sec_tool_ids_ref.get() (793-794) and the loop body's choice.
SaveGet(b) ==
    /\ pc[b] = "save_get"
    /\ LET w == Head(local[b].queue)
           sec_tool_ids == IF w[1] \in DOMAIN sections
                           THEN sections[w[1]].tool_ids ELSE {}
           todo == SaveChoice(w[1], ev[b].secs, w[2], sec_tool_ids)
       IN IF todo = ""
          THEN SaveAdvance(b)
          ELSE /\ local' = [local EXCEPT ![b].todo = todo]
               /\ pc' = [pc EXCEPT ![b] = "save_put"]
               /\ UNCHANGED <<ev, notice>>
    /\ UNCHANGED <<tools, sections, votes, nextTool, nextVoter, localStorage,
                   voter_id, score_state, cast, start, incs, ops>>
    /\ UNCHANGED <<applied, commentVars, viewVars>>

\* sec_tool_ids_ref.child(t).delete() on a section (796)
RemoveToolId(secs, sec_id, tid) ==
    IF sec_id \in DOMAIN secs
    THEN [secs EXCEPT ![sec_id].tool_ids = @ \ {tid}]
    ELSE secs

\* The delete (796) or the update (798) the loop body chose.
SavePut(b) ==
    /\ pc[b] = "save_put"
    /\ LET w == Head(local[b].queue)
       IN sections' = IF local[b].todo = "delete"
                      THEN RemoveToolId(sections, w[1], w[2])
                      ELSE AddToolId(sections, w[1], w[2])
    /\ SaveAdvance(b)
    /\ UNCHANGED <<tools, votes, nextTool, nextVoter, localStorage, voter_id,
                   score_state, cast, start, incs, ops>>
    /\ UNCHANGED <<applied, commentVars, viewVars>>

\* ------------------------------------------------------------------ abandon
\* A script run ends between two store writes of one operation: the next
\* call raises (no handler catches it) or the client is gone.
Abandon(b) ==
    /\ pc[b] \in {"seed_assign", "create_assign", "save_get", "save_put",
                "vote_set"}
    /\ ops < MaxOps
    /\ ops' = ops + 1
    /\ EndRun(b)
    /\ UNCHANGED <<tools, sections, votes, nextTool, nextVoter, localStorage,
                   voter_id, score_state, cast, start, incs>>
    /\ UNCHANGED <<applied, commentVars, viewVars>>

Next ==
    \E b \in Browsers :
        \/ NewSession(b)
        \/ Rerun(b)
        \/ SeedSectionsGet(b)
        \/ SeedSectionsSet(b)
        \/ SeedToolsGet(b)
        \/ SeedAssign(b)
        \/ SeedSetTools(b)
        \/ RenderRows(b)
        \/ VoteClick(b)
        \/ TxnGet(b)
        \/ TxnSet(b)
        \/ SuggestSubmit(b)
        \/ CreateSet(b)
        \/ CreateAssign(b)
        \/ ManageSave(b)
        \/ SaveUpdate(b)
        \/ SaveGet(b)
        \/ SavePut(b)
        \/ Abandon(b)

Spec == Init /\ [][Next]_vars

\* The program with the render_tool_row of lines 305-330 in place of the one
\* of lines 570-596: start-up, seed, rows and votes.
NextGated ==
    \E b \in Browsers :
        \/ NewSession(b)
        \/ Rerun(b)
        \/ SeedSectionsGet(b)
        \/ SeedSectionsSet(b)
        \/ SeedToolsGet(b)
        \/ SeedAssign(b)
        \/ SeedSetTools(b)
        \/ RenderRowsGated(b)
        \/ VoteClickGated(b)
        \/ VoteRefGet(b)
        \/ TxnGetGated(b)
        \/ TxnSetGated(b)
        \/ VoteRefSet(b)
        \/ Abandon(b)

SpecGated == Init /\ [][NextGated]_vars

\* ------------------------------------------------- a store seeded once
\* seed_defaults_from_excel run once on the empty store by one start-up.
SeedPlan == SeedRows(1, 1, [tools_obj |-> Empty, queue |-> <<>>])

\* The tool_ids updates of a queue (262), applied in order.
RECURSIVE AssignAll(_, _)
AssignAll(secs, queue) ==
    IF queue = <<>> THEN secs
    ELSE AssignAll(AddToolId(secs, Head(queue)[1], Head(queue)[2]), Tail(queue))

\* The state once that start-up is over and both browsers have a session
\* that has rendered the rows and waits for an event.
InitSeeded ==
    /\ tools = SeedPlan.tools_obj
    /\ sections = AssignAll(DEFAULT_SECTIONS, SeedPlan.queue)
    /\ votes = Empty
    /\ nextTool = 1 + Cardinality(DOMAIN SeedPlan.tools_obj)
    /\ nextVoter = 3
    /\ localStorage = [b \in Browsers |-> RandomUUID(b)]
    /\ voter_id = [b \in Browsers |-> IF b = "b1" THEN 1 ELSE 2]
    /\ score_state = [b \in Browsers |-> ScoreKeys(Empty, SeedPlan.tools_obj)]
    /\ pc = [b \in Browsers |-> "idle"]
    /\ ev = [b \in Browsers |-> NoEvent]
    /\ local = [b \in Browsers |-> NoLocal]
    /\ notice = [b \in Browsers |-> ""]
    /\ cast = Empty
    /\ start = [t \in DOMAIN SeedPlan.tools_obj |-> Counters(SeedPlan.tools_obj[t])]
    /\ incs = [t \in DOMAIN SeedPlan.tools_obj |-> Zero]
    /\ ops = 0
    /\ applied = Empty
    /\ comments = Empty
    /\ clock = 0
    /\ listing = [b \in Browsers |-> NoListing]
    /\ tools_dict = Empty
    /\ sections_dict = Empty
    /\ tools_df = <<>>
    /\ sub_df = NoView
    /\ top10_df = <<>>

\* The sessions of a seeded store that save edits in Manage Tools.
NextSaves ==
    \E b \in Browsers :
        \/ ManageSave(b)
        \/ SaveUpdate(b)
        \/ SaveGet(b)
        \/ SavePut(b)

SpecSaves == InitSeeded /\ [][NextSaves]_vars

\* The sessions of a seeded store that vote and save edits. A transaction
\* under way makes its next store call: each call returns.
NextVotes ==
    \E b \in Browsers :
        \/ VoteClick(b)
        \/ TxnGet(b)
        \/ TxnSet(b)
        \/ ManageSave(b)
        \/ SaveUpdate(b)
        \/ SaveGet(b)
        \/ SavePut(b)

SpecVotes ==
    /\ InitSeeded
    /\ [][NextVotes]_vars
    /\ \A b \in Browsers : WF_vars(TxnGet(b)) /\ WF_vars(TxnSet(b))

\* ------------------------------------------------------ leaderboard views
\* The ids of a dict in its iteration order (the store returns keys sorted).
RECURSIVE KeysInOrder(_)
KeysInOrder(S) ==
    IF S = {} THEN <<>>
    ELSE LET k == CHOOSE x \in S : \A y \in S : x <= y
         IN <<k>> \o KeysInOrder(S \ {k})

\* section_names of a tool (276-279)
SectionNamesOf(t, sections_d) ==
    [i \in 1..Len(t.sections) |->
        IF t.sections[i] \in DOMAIN sections_d
        THEN sections_d[t.sections[i]].name ELSE t.sections[i]]

\* One row of tools_df_from_db (280-289)
RowOf(tid, t, sections_d) ==
    [tool_id |-> tid,
     name |-> t.name,
     tags |-> t.tags,
     sections |-> SectionNamesOf(t, sections_d),
     upvotes |-> Val(t.upvotes),
     downvotes |-> Val(t.downvotes),
     score |-> compute_score(t),
     created_at |-> t.created_at]

\* rows (274-289): one row per tool, in the dict's order.
RowsOf(tools_d, sections_d) ==
    LET ks == KeysInOrder(DOMAIN tools_d)
    IN [i \in 1..Len(ks) |-> RowOf(ks[i], tools_d[ks[i]], sections_d)]

\* A sort that orders by score alone.
SortsBeforeByScore(a, b) == a.score > b.score

\* Row a sorts before row b under sort_values(["score","upvotes"],
\* ascending=[False,False]) (292).
SortsBefore(a, b) ==
    \/ a.score > b.score
    \/ a.score = b.score /\ a.upvotes > b.upvotes

\* One row put into rows already sorted: after every row that does not sort
\* after it (the sort on several columns keeps equal rows in their order).
RECURSIVE InsertRow(_, _)
InsertRow(sorted, row) ==
    IF sorted = <<>> THEN <<row>>
    ELSE IF SortsBefore(row, Head(sorted))
         THEN <<row>> \o sorted
         ELSE <<Head(sorted)>> \o InsertRow(Tail(sorted), row)

RECURSIVE SortRows(_, _)
SortRows(sorted, rows) ==
    IF rows = <<>> THEN sorted
    ELSE SortRows(InsertRow(sorted, Head(rows)), Tail(rows))

\* tools_df_from_db (273-293)
tools_df_from_db(tools_d, sections_d) ==
    SortRows(<<>>, RowsOf(tools_d, sections_d))

\* A computation that fills in the counters an entry lacks.
DictAfterBoardDefaults(tools_d) ==
    [t \in DOMAIN tools_d |->
        [tools_d[t] EXCEPT !.upvotes = Val(@), !.downvotes = Val(@)]]

\* tools_dict after tools_df_from_db has read it (275-288: .items(), .get()).
DictAfterBoard(tools_d) == tools_d

\* sub_df (639): the rows of tools_df whose id is a key of tool_ids.
FilterRows(df, tool_ids) == SelectSeq(df, LAMBDA r : r.tool_id \in tool_ids)

\* The orders sort_values("score", ascending=False) (645, 661) can give: the
\* default sort of one column is not stable, so rows of equal score come in
\* any order.
ScoreSorts(df) ==
    LET n == Len(df)
        perms == {p \in [1..n -> 1..n] : \A i, j \in 1..n : i # j => p[i] # p[j]}
    IN {[i \in 1..n |-> df[p[i]]] : p \in
          {q \in perms : \A i, j \in 1..n :
               i < j => df[q[i]].score >= df[q[j]].score}}

\* .head(n)
HeadRows(df, n) == SubSeq(df, 1, IF Len(df) < n THEN Len(df) ELSE n)

\* The stores whose views are computed: up to MaxBoardTools tools with
\* counters up to MaxCount (a downvotes child may be missing), all of them
\* or all but the first in section1.
BoardEntries ==
    {[name |-> "Cellpose", tags |-> <<"Segmentation">>, sections |-> <<"section1">>,
      upvotes |-> u, downvotes |-> d, created_at |-> "set"] :
        u \in 0..MaxCount, d \in {Absent, 0, 1}}
BoardTools == UNION {[1..n -> BoardEntries] : n \in 0..MaxBoardTools}
BoardSections(d) ==
    {[DEFAULT_SECTIONS EXCEPT !["section1"].tool_ids = ids] :
        ids \in {DOMAIN d, DOMAIN d \ {1}}}

\* The session whose script run computes the views.
Viewer == "b1"

InitBoard ==
    /\ tools \in BoardTools
    /\ sections \in BoardSections(tools)
    /\ votes = Empty
    /\ nextTool = 1 + Cardinality(DOMAIN tools)
    /\ nextVoter = 3
    /\ localStorage = [b \in Browsers |-> RandomUUID(b)]
    /\ voter_id = [b \in Browsers |-> IF b = "b1" THEN 1 ELSE 2]
    /\ score_state = [b \in Browsers |-> Empty]
    /\ pc = [b \in Browsers |-> IF b = Viewer THEN "fetch" ELSE "idle"]
    /\ ev = [b \in Browsers |-> NoEvent]
    /\ local = [b \in Browsers |-> NoLocal]
    /\ notice = [b \in Browsers |-> ""]
    /\ cast = Empty
    /\ start = [t \in DOMAIN tools |-> Counters(tools[t])]
    /\ incs = [t \in DOMAIN tools |-> Zero]
    /\ ops = 0
    /\ applied = Empty
    /\ comments = Empty
    /\ clock = 0
    /\ listing = [b \in Browsers |-> NoListing]
    /\ tools_dict = Empty
    /\ sections_dict = Empty
    /\ tools_df = <<>>
    /\ sub_df = NoView
    /\ top10_df = <<>>

\* Everything but the views and the viewer's position.
boardFrame == <<tools, sections, votes, nextTool, nextVoter, localStorage,
                voter_id, score_state, ev, local, notice, cast, start, incs,
                ops, applied, commentVars>>

\* tools_dict = list_all_tools_dict() (563)
FetchTools ==
    /\ pc[Viewer] = "fetch"
    /\ tools_dict' = tools
    /\ pc' = [pc EXCEPT ![Viewer] = "fetch_sections"]
    /\ UNCHANGED <<boardFrame, sections_dict, tools_df, sub_df, top10_df>>

\* sections_dict = list_all_sections_dict() (564)
FetchSections ==
    /\ pc[Viewer] = "fetch_sections"
    /\ sections_dict' = sections
    /\ pc' = [pc EXCEPT ![Viewer] = "board"]
    /\ UNCHANGED <<boardFrame, tools_dict, tools_df, sub_df, top10_df>>

\* tools_df = tools_df_from_db(tools_dict, sections_dict) (565)
ComputeBoard ==
    /\ pc[Viewer] = "board"
    /\ tools_df' = tools_df_from_db(tools_dict, sections_dict)
    /\ tools_dict' = DictAfterBoard(tools_dict)
    /\ sub_df' = NoView
    /\ top10_df' = <<>>
    /\ pc' = [pc EXCEPT ![Viewer] = "views"]
    /\ UNCHANGED <<boardFrame, sections_dict>>

\* One section of the Dashboard tab (632-662): its rows and its chart.
SectionView ==
    /\ pc[Viewer] = "views"
    /\ \E sec_id \in DOMAIN sections_dict :
         LET tool_ids == sections_dict[sec_id].tool_ids
             filtered == FilterRows(tools_df, tool_ids)
         IN /\ filtered # <<>>
            /\ \E sorted \in ScoreSorts(filtered) :
                 /\ sub_df' = [sec_id |-> sec_id, rows |-> sorted]
                 /\ top10_df' = HeadRows(sorted, ChartRows)
    /\ UNCHANGED <<boardFrame, pc, tools_dict, sections_dict, tools_df>>

\* The run ends; the auto-refresh (559-560) starts the next one.
EndView ==
    /\ pc[Viewer] = "views"
    /\ pc' = [pc EXCEPT ![Viewer] = "idle"]
    /\ UNCHANGED <<boardFrame, viewVars>>

Poll ==
    /\ pc[Viewer] = "idle"
    /\ pc' = [pc EXCEPT ![Viewer] = "fetch"]
    /\ UNCHANGED <<boardFrame, viewVars>>

NextBoard ==
    \/ FetchTools
    \/ FetchSections
    \/ ComputeBoard
    \/ SectionView
    \/ EndView
    \/ Poll

SpecBoard == InitBoard /\ [][NextBoard]_vars

\* ---------------------------------------------------------------- comments
\* fetch_comments (154-155): the comments of a tool, by comment id.
fetch_comments(tool_id) ==
    [cid \in {c \in CommentIds : <<tool_id, c>> \in DOMAIN comments} |->
        comments[<<tool_id, cid>>]]

\* One item put into items already sorted newest-first: after every item
\* whose timestamp is not older (sorted keeps equal keys in their order, with
\* reverse=True too).
RECURSIVE InsertComment(_, _)
InsertComment(sorted, item) ==
    IF sorted = <<>> THEN <<item>>
    ELSE IF item.timestamp > Head(sorted).timestamp
         THEN <<item>> \o sorted
         ELSE <<Head(sorted)>> \o InsertComment(Tail(sorted), item)

RECURSIVE SortComments(_, _)
SortComments(sorted, items) ==
    IF items = <<>> THEN sorted
    ELSE SortComments(InsertComment(sorted, Head(items)), Tail(items))

\* sorted(comments.items(), key=lambda x: x[1]["timestamp"], reverse=True)
\* (820): the items in the dict's order, sorted by timestamp.
SortedComments(fetched) ==
    LET ks == KeysInOrder(DOMAIN fetched)
        items == [i \in 1..Len(ks) |->
                    [comment_id |-> ks[i],
                     text |-> fetched[ks[i]].text,
                     type |-> fetched[ks[i]].type,
                     timestamp |-> fetched[ks[i]].timestamp]]
    IN SortComments(<<>>, items)

\* The Comments tab of a run (808-822): the selected tool's comments.
ShowComments(b, tool_id) ==
    listing' = [listing EXCEPT ![b] =
                  [tool |-> tool_id, rows |-> SortedComments(fetch_comments(tool_id))]]

\* A run of the Comments tab without a click (563, 808-822).
CommentsTab(b) ==
    /\ AtFetch(b)
    /\ HasNames(tools)
    /\ \E selected_tool_id \in DOMAIN tools : ShowComments(b, selected_tool_id)
    /\ EndRun(b)
    /\ UNCHANGED <<tools, sections, votes, nextTool, nextVoter, localStorage,
                   voter_id, score_state, cast, start, incs, ops, applied,
                   comments, clock, viewVars>>

\* The user presses Submit (841) with a text and a type: the run starts and
\* fetches the tools (563).
CommentClick(b) ==
    /\ AtFetch(b)
    /\ HasNames(tools)
    /\ \E selected_tool_id \in DOMAIN tools, new_comment \in CommentTexts,
          comment_type \in CommentTypes :
         ev' = [ev EXCEPT ![b] = [NoEvent EXCEPT !.kind = "comment",
                  !.tool = selected_tool_id, !.text = new_comment,
                  !.type = comment_type]]
    /\ pc' = [pc EXCEPT ![b] = "comment_run"]
    /\ notice' = [notice EXCEPT ![b] = ""]
    /\ UNCHANGED <<tools, sections, votes, nextTool, nextVoter, localStorage,
                   voter_id, score_state, local, cast, start, incs, ops,
                   applied, commentVars, viewVars>>

\* A submit handler that takes every text.
AcceptsAny(new_comment) == TRUE

\* if new_comment.strip() (842)
Accepted(new_comment) == Strip(new_comment) # ""

\* The run shows the comments (815-822) and reaches the Submit handler
\* (841-847): a text that is empty once stripped is refused.
CommentRun(b) ==
    /\ pc[b] = "comment_run"
    /\ ShowComments(b, ev[b].tool)
    /\ IF Accepted(ev[b].text)
       THEN /\ pc' = [pc EXCEPT ![b] = "comment_add"]
            /\ UNCHANGED <<ev, local, notice>>
       ELSE EndRunWith(b, "Enter a comment before submitting.")
    /\ UNCHANGED <<tools, sections, votes, nextTool, nextVoter, localStorage,
                   voter_id, score_state, cast, start, incs, ops, applied,
                   comments, clock, viewVars>>

\* comment_data of add_comment (146-150)
comment_data(text, comment_type, stamp) ==
    [text |-> text, type |-> comment_type, timestamp |-> stamp]

\* add_comment (144-151) of the stripped text (843): a new uuid4, the clock
\* read, one set; then st.success and trigger_refresh (844-845).
AddComment(b) ==
    /\ pc[b] = "comment_add"
    /\ \E comment_id \in CommentIds, stamp \in ClockReads :
         /\ <<ev[b].tool, comment_id>> \notin DOMAIN comments
         /\ clock' = stamp
         /\ comments' = comments @@
              (<<ev[b].tool, comment_id>> :>
                   comment_data(Strip(ev[b].text), ev[b].type, stamp))
    /\ EndRunWith(b, "Comment added!")
    /\ UNCHANGED <<tools, sections, votes, nextTool, nextVoter, localStorage,
                   voter_id, score_state, cast, start, incs, ops, applied,
                   listing, viewVars>>

\* The sessions of a seeded store that read and write comments.
NextComments ==
    \E b \in Browsers :
        \/ CommentsTab(b)
        \/ CommentClick(b)
        \/ CommentRun(b)
        \/ AddComment(b)

SpecComments == InitSeeded /\ [][NextComments]_vars

\* ================================================================== claims
\* The vote records of tool t of one type, as /votes holds them.
VoteRecords(t, type) ==
    {k \in DOMAIN votes : k[1] = t /\ votes[k].type = type}

\* Voters with a committed increment on tool t.
VotersOf(t) == {v \in VoterIds : <<t, v>> \in DOMAIN cast}

\* Two names are the same but for case.
SameName(a, b) == Lower(a) = Lower(b)

\* C1: for one (tool, voter id) pair only the first vote action changes the
\* tool's counters: a vote action of a voter id that already has a committed
\* vote on the tool leaves the store's tools as they are.
C1_OnlyFirstVoteCounts ==
    [][\A b \in Browsers :
         (TxnSet(b) /\ <<ev[b].tool, VOTER_ID(b)>> \in DOMAIN cast)
            => tools' = tools]_vars

\* C2: no increment is lost: each counter of each tool is the value the entry
\* started with plus the number of increments committed on it since, whatever
\* the interleaving of the transactions' reads and writes.
C2_NoLostIncrement ==
    \A t \in DOMAIN tools :
        /\ Val(tools[t].upvotes) = start[t].up + incs[t].up
        /\ Val(tools[t].downvotes) = start[t].down + incs[t].down

\* Two upvotes of different voter ids on one tool overlap: one has been
\* committed after the other's transaction read the counter, which is about
\* to write on a value that is no longer the stored one.
C2_OverlappingUpvotes ==
    \E b \in Browsers, t \in DOMAIN tools :
        /\ pc[b] = "txn_set"
        /\ ev[b].tool = t /\ ev[b].dir = "up"
        /\ VotersOf(t) # {} /\ VOTER_ID(b) \notin VotersOf(t)
        /\ incs[t].up >= 1
        /\ local[b].cur # Stored(t, "up")

\* C3: of the vote actions one voter id issues on one tool, at most one
\* increments a counter.
C3_OneIncrementPerVoter ==
    \A k \in DOMAIN cast : cast[k] <= 1

\* C4: for every tool, upvotes minus downvotes is the number of its "up" vote
\* records minus the number of its "down" vote records.
C4_ScoreMatchesRecords ==
    \A t \in DOMAIN tools :
        compute_score(tools[t]) =
            Cardinality(VoteRecords(t, "up")) - Cardinality(VoteRecords(t, "down"))

\* C5: for every section s and tool t of the store, t is a key of s.tool_ids
\* exactly if s is in t.sections.
C5_MembershipBothWays ==
    \A s \in DOMAIN sections, t \in DOMAIN tools :
        t \in sections[s].tool_ids <=> s \in Range(tools[t].sections)

\* C6: a Suggest Tool submission whose trimmed name is, but for case, the
\* name of a tool the run fetched does not go on to create a tool, and a
\* submission answered "This tool already exists!" ends the run with tools
\* and sections as they were.
C6_DuplicateNameRejected ==
    [][\A b \in Browsers :
         SuggestSubmit(b) =>
            /\ pc'[b] = "create_set" =>
                 \A t \in DOMAIN tools :
                    ~SameName(tools[t].name, Strip(ev'[b].name))
            /\ notice'[b] = "DuplicateName" =>
                 /\ pc'[b] = "idle"
                 /\ tools' = tools /\ sections' = sections
                 /\ nextTool' = nextTool]_vars

\* A submission has been answered "This tool already exists!" while the
\* store holds a tool.
C6_SubmissionRejected ==
    \E b \in Browsers :
        /\ notice[b] = "DuplicateName"
        /\ pc[b] = "idle"
        /\ ToolsPresent

\* C7: no two different tools of the store have names that are the same but
\* for case.
C7_UniqueNames ==
    \A t1, t2 \in DOMAIN tools :
        (t1 # t2 /\ tools[t1].name # NoName /\ tools[t2].name # NoName)
            => ~SameName(tools[t1].name, tools[t2].name)

\* C8: once /tools holds tools, no start-up writes /tools again.
C8_SeedWritesOnce ==
    [][\A b \in Browsers : SeedSetTools(b) => ~ToolsPresent]_vars

\* C9: a refresh of a viewer's leaderboard shows, for every tool fetched, the
\* score the store holds.
C9_RefreshShowsStoredScore ==
    [][\A b \in Browsers :
         RenderRows(b) =>
            \A t \in DOMAIN tools : Shown(b, t)' = compute_score(tools[t])]_vars

\* C10: the voter id of a browser, once it has one, is the same in every
\* later script run, reruns and page reloads alike.
C10_VoterIdStable ==
    [][\A b \in Browsers :
         VOTER_ID(b) # NoId => VOTER_ID(b)' = VOTER_ID(b)]_vars

\* Increments committed on tool t in direction dir.
AppliedTo(t, dir) ==
    IF <<t, dir>> \in DOMAIN applied THEN applied[<<t, dir>>] ELSE 0

\* C11: a vote record, once it exists, is kept as it is: every step leaves
\* it in /votes with the same direction and timestamp.
C11_VoteRecordImmutable ==
    [][\A k \in DOMAIN votes :
         k \in DOMAIN votes' /\ votes'[k] = votes[k]]_vars

\* A voter with a record on a tool has clicked a button of that tool's row
\* again, and the run is at the gate.
C11_SecondClickAtGate ==
    \E b \in Browsers :
        /\ pc[b] = "vote_get"
        /\ <<ev[b].tool, VOTER_ID(b)>> \in DOMAIN votes

\* C20: in the gated vote path, for every tool and direction the number of
\* vote records never exceeds the number of increments committed on that
\* direction's counter.
C20_RecordsWithinIncrements ==
    \A t \in ToolIds, dir \in {"up", "down"} :
        Cardinality(VoteRecords(t, dir)) <= AppliedTo(t, dir)

\* A run stopped between its two writes: no run is under way and a counter
\* has an increment without a vote record.
C20_IncrementWithoutRecord ==
    /\ \A b \in Browsers : pc[b] \in {"idle", "closed"}
    /\ \E t \in ToolIds, dir \in {"up", "down"} :
         Cardinality(VoteRecords(t, dir)) < AppliedTo(t, dir)

\* C12: a vote action on a tool id that is not in /tools leaves the store as
\* it is; it creates no /tools entry made of a counter alone.
C12_VoteOnMissingToolRejected ==
    [][\A b \in Browsers :
         (TxnSet(b) /\ ev[b].tool \notin DOMAIN tools)
            => /\ tools' = tools /\ sections' = sections /\ votes' = votes
               /\ \A t \in DOMAIN tools' : tools'[t].name # NoName]_vars

\* C13: once two Manage Tools saves have run and no save is under way, the
\* store shows one edit as a whole: every tool's tags are those of its
\* sections, and it is in tool_ids of exactly the sections it lists.
C13_SavesLeaveOneEdit ==
    (ops >= 2 /\ \A b \in Browsers : pc[b] = "idle") =>
        \A t \in DOMAIN tools :
            /\ tools[t].tags = TagsOf(tools[t].sections)
            /\ \A s \in DOMAIN sections :
                 t \in sections[s].tool_ids <=> s \in Range(tools[t].sections)

\* C14: the leaderboard that tools_df_from_db computes holds one row per tool
\* of tools_dict, each with score = upvotes - downvotes, ordered by score
\* descending, then by upvotes descending, rows equal in both in the order of
\* the input. This order is unique, so computing it again from the same input
\* gives the same order.
C14_LeaderboardOrder ==
    pc[Viewer] \in {"views", "idle"} =>
        /\ Len(tools_df) = Cardinality(DOMAIN tools_dict)
        /\ {tools_df[i].tool_id : i \in 1..Len(tools_df)} = DOMAIN tools_dict
        /\ \A i \in 1..Len(tools_df) :
             LET t == tools_dict[tools_df[i].tool_id]
             IN /\ tools_df[i].upvotes = Val(t.upvotes)
                /\ tools_df[i].score = Val(t.upvotes) - Val(t.downvotes)
        /\ \A i, j \in 1..Len(tools_df) :
             i < j =>
                \/ tools_df[i].score > tools_df[j].score
                \/ /\ tools_df[i].score = tools_df[j].score
                   /\ tools_df[i].upvotes > tools_df[j].upvotes
                \/ /\ tools_df[i].score = tools_df[j].score
                   /\ tools_df[i].upvotes = tools_df[j].upvotes
                   /\ tools_df[i].tool_id < tools_df[j].tool_id

\* C14 witness: a computed leaderboard of two tools of equal score where the
\* second tool of the input has more upvotes and comes first.
C14_TiesOrdered ==
    /\ pc[Viewer] = "views"
    /\ Len(tools_df) = 2
    /\ tools_df[1].tool_id = 2
    /\ tools_df[1].score = tools_df[2].score
    /\ tools_df[1].upvotes > tools_df[2].upvotes

\* C15: a section's view holds exactly the tools whose id is in the section's
\* tool_ids, ordered by score descending, then upvotes descending, rows equal
\* in both in the order of the input, and the chart shows the first 10 of
\* them.
C15_SectionViewOrder ==
    sub_df.sec_id # "" =>
        LET rows == sub_df.rows
            ids == sections_dict[sub_df.sec_id].tool_ids \cap DOMAIN tools_dict
        IN /\ Len(rows) = Cardinality(ids)
           /\ {rows[i].tool_id : i \in 1..Len(rows)} = ids
           /\ \A i, j \in 1..Len(rows) :
                i < j =>
                   \/ rows[i].score > rows[j].score
                   \/ /\ rows[i].score = rows[j].score
                      /\ rows[i].upvotes > rows[j].upvotes
                   \/ /\ rows[i].score = rows[j].score
                      /\ rows[i].upvotes = rows[j].upvotes
                      /\ rows[i].tool_id < rows[j].tool_id
           /\ top10_df = SubSeq(rows, 1, IF Len(rows) < 10 THEN Len(rows) ELSE 10)

\* C19: computing the leaderboard and a section's view writes nothing: the
\* stored tools and sections and the in-memory tools_dict and sections_dict
\* are the same after the step as before it.
C19_ViewsWriteNothing ==
    [][(ComputeBoard \/ SectionView) =>
          UNCHANGED <<tools, sections, tools_dict, sections_dict>>]_vars

\* C19 witness: a section's view computed from a store where a tool has no
\* downvotes child, the dict still as fetched.
C19_ViewOfSparseEntry ==
    /\ sub_df.sec_id # ""
    /\ tools_dict = tools
    /\ sections_dict = sections
    /\ \E t \in DOMAIN tools_dict : tools_dict[t].downvotes = Absent

\* C16: a listing of a tool's comments is newest-first by timestamp, no two
\* adjacent entries out of order, and a comment that has just been added is
\* the first entry of the listing of the store it was added to.
C16_NewestFirst ==
    [][/\ \A b \in Browsers :
            \A i \in 1..(Len(listing'[b].rows) - 1) :
               listing'[b].rows[i].timestamp >= listing'[b].rows[i + 1].timestamp
       /\ \A k \in DOMAIN comments' \ DOMAIN comments :
            Head(SortedComments([cid \in {c \in CommentIds : <<k[1], c>> \in DOMAIN comments'} |->
                                    comments'[<<k[1], cid>>]])).comment_id = k[2]
      ]_vars

\* C17: a submitted comment whose text is empty once trimmed is refused and
\* the comments stay as they are; a comment whose trimmed text is not empty
\* is added under a new id with the trimmed text, and every comment that
\* existed stays as it was. Nothing else adds or changes a comment.
C17_CommentTrimmedOrRejected ==
    [][/\ \A b \in Browsers :
            (pc[b] = "comment_run" /\ pc'[b] # "comment_run") =>
                /\ comments' = comments
                /\ IF Strip(ev[b].text) = ""
                   THEN /\ pc'[b] = "idle"
                        /\ notice'[b] = "Enter a comment before submitting."
                   ELSE pc'[b] = "comment_add"
       /\ \A b \in Browsers :
            (pc[b] = "comment_add" /\ pc'[b] # "comment_add") =>
                /\ Strip(ev[b].text) # ""
                /\ \E cid \in CommentIds :
                     /\ <<ev[b].tool, cid>> \notin DOMAIN comments
                     /\ DOMAIN comments' = DOMAIN comments \cup {<<ev[b].tool, cid>>}
                     /\ comments'[<<ev[b].tool, cid>>].text = Strip(ev[b].text)
                /\ \A k \in DOMAIN comments : comments'[k] = comments[k]
       /\ comments' # comments =>
            \E b \in Browsers : pc[b] = "comment_add" /\ pc'[b] = "idle"
      ]_vars

\* C17 witness: a comment typed with spaces around it is stored trimmed, and
\* another session's blank comment has been refused.
C17_TrimmedStoredBlankRefused ==
    /\ \E k \in DOMAIN comments : comments[k].text = "nice"
    /\ \E b \in Browsers : notice[b] = "Enter a comment before submitting."
    /\ \A k \in DOMAIN comments : comments[k].text # ""

\* C18: when a seeding of an empty store has written its tools, every row of
\* the table with a flagged section column has exactly one tool, whose
\* sections are the mapped ids of the flagged columns, whose tags are those
\* sections' names, and whose id is in tool_ids of each of those sections; a
\* row without a flag has no tool.
C18_SeedCreatesFlaggedRows ==
    [][\A b \in Browsers :
         (SeedSetTools(b) /\ ~ToolsPresent) =>
            \A i \in 1..Len(CsvRows) :
               LET ids == {SECTION_MAPPING[c] : c \in Range(CsvRows[i].cols)}
                   made == {t \in DOMAIN tools' :
                               tools'[t].name = Strip(CsvRows[i].name)}
               IN IF ids = {} THEN made = {}
                  ELSE /\ Cardinality(made) = 1
                       /\ \A t \in made :
                            /\ Range(tools'[t].sections) = ids
                            /\ Len(tools'[t].sections) = Cardinality(ids)
                            /\ Len(tools'[t].tags) = Len(tools'[t].sections)
                            /\ \A k \in 1..Len(tools'[t].sections) :
                                 tools'[t].tags[k] =
                                    DEFAULT_SECTIONS[tools'[t].sections[k]].name
                            /\ \A sec_id \in ids :
                                 /\ sec_id \in DOMAIN sections'
                                 /\ t \in sections'[sec_id].tool_ids]_vars

\* C21: no tool of the store has a name that is empty once trimmed, whether
\* it was created through Suggest Tool or renamed through Manage Tools.
C21_NoBlankName ==
    \A t \in DOMAIN tools :
        tools[t].name # NoName => Strip(tools[t].name) # ""

\* The increments voter v has committed on tool t.
CastOf(t, v) == IF <<t, v>> \in DOMAIN cast THEN cast[<<t, v>>] ELSE 0

C23_SaveKeepsCounters ==
    [][\A b \in Browsers :
         (SaveUpdate(b) \/ SaveGet(b) \/ SavePut(b)) =>
            \A t \in DOMAIN tools :
               /\ t \in DOMAIN tools'
               /\ tools'[t].upvotes = tools[t].upvotes
               /\ tools'[t].downvotes = tools[t].downvotes
               /\ tools'[t].created_at = tools[t].created_at
               /\ Val(tools'[t].upvotes) >= 0
               /\ Val(tools'[t].downvotes) >= 0
               /\ (Val(tools[t].upvotes) = start[t].up + incs[t].up) =>
                     (Val(tools'[t].upvotes) = start'[t].up + incs'[t].up)
               /\ (Val(tools[t].downvotes) = start[t].down + incs[t].down) =>
                     (Val(tools'[t].downvotes) = start'[t].down + incs'[t].down)]_vars

\* C23 witness: a save has renamed a tool and is in its section loop, and the
\* tool's upvotes hold the increment a vote committed.
C23_RenamedWithVoteKept ==
    \E b \in Browsers :
        /\ pc[b] = "save_get"
        /\ ev[b].tool \in DOMAIN tools
        /\ ev[b].name = " cellpose "
        /\ tools[ev[b].tool].name = "cellpose"
        /\ incs[ev[b].tool].up = 1
        /\ tools[ev[b].tool].upvotes = start[ev[b].tool].up + 1

\* C24: whenever no script run is under way, every tool of the store has a
\* non-empty sections list and is in tool_ids of at least one section.
C24_EveryToolInASection ==
    (\A b \in Browsers : pc[b] \in {"idle", "closed"}) =>
        \A t \in DOMAIN tools :
            tools[t].name # NoName =>
               /\ tools[t].sections # <<>>
               /\ \E sec_id \in DOMAIN sections : t \in sections[sec_id].tool_ids

\* C25: the tags of every tool of the store are the names of the sections its
\* sections field lists, one tag per section and in the same order.
C25_TagsAreSectionNames ==
    \A t \in DOMAIN tools :
        /\ Len(tools[t].tags) = Len(tools[t].sections)
        /\ \A k \in 1..Len(tools[t].sections) :
             /\ tools[t].sections[k] \in DOMAIN sections
             /\ tools[t].tags[k] = sections[tools[t].sections[k]].name

\* C25 witness: the seeded tool, saved in Manage Tools with its sections in
\* another order, and a tool created through Suggest Tool.
C25_SavedAndSuggested ==
    /\ \E t \in DOMAIN tools :
         /\ tools[t].name = "Cellpose"
         /\ tools[t].sections = <<"section2", "section1">>
         /\ tools[t].tags = <<"Clustering", "Segmentation">>
    /\ \E t \in DOMAIN tools : tools[t].name = "Napari"

====
